---- MODULE Spec2Model ----
(***************************************************************************)
(* Model of cookie-analyzer.js: one run of App.main, from the command line *)
(* to the lines written on standard output.                                *)
(*                                                                         *)
(* A JavaScript string is modelled as a sequence of tokens.  A token is    *)
(* either one of the characters the program looks at (",", "\n", "T", ".", *)
(* " ") or a chunk of characters free of them ("a", "1", "D9",             *)
(* "constructor", ...).  Two strings are equal iff their token sequences   *)
(* are equal.                                                              *)
(***************************************************************************)
EXTENDS Integers, Sequences, FiniteSets, TLC

VARIABLES argv, fsReadable, fsContent,
          pc, parsedArgs, content, adapter, parsedLogs, analyzedLogs,
          stdout, stderr, exitCode, thrown, coreCalls

vars == <<argv, fsReadable, fsContent, pc, parsedArgs, content, adapter,
          parsedLogs, analyzedLogs, stdout, stderr, exitCode, thrown, coreCalls>>

env == <<argv, fsReadable, fsContent>>

(***************************************************************************)
(* Bounds of the model.                                                    *)
(***************************************************************************)
MaxLines == 3

(***************************************************************************)
(* Strings.                                                                *)
(***************************************************************************)
NL == "\n"
COMMA == ","
TEE == "T"
DOT == "."
SPACE == " "

\* String.prototype.trim strips white space and line terminators.
WhiteSpace == {SPACE, NL}

Str(tok) == <<tok>>

RECURSIVE TrimStart(_)
TrimStart(s) ==
  IF s # <<>> /\ Head(s) \in WhiteSpace THEN TrimStart(Tail(s)) ELSE s

RECURSIVE TrimEnd(_)
TrimEnd(s) ==
  IF s # <<>> /\ s[Len(s)] \in WhiteSpace
    THEN TrimEnd(SubSeq(s, 1, Len(s) - 1))
    ELSE s

Trim(s) == TrimEnd(TrimStart(s))

\* String.prototype.split(sep) for a one-character separator: always at
\* least one piece, empty pieces kept.
RECURSIVE SplitFrom(_, _, _, _)
SplitFrom(s, sep, i, cur) ==
  IF i > Len(s) THEN <<cur>>
  ELSE IF s[i] = sep THEN <<cur>> \o SplitFrom(s, sep, i + 1, <<>>)
  ELSE SplitFrom(s, sep, i + 1, Append(cur, s[i]))

Split(s, sep) == SplitFrom(s, sep, 1, <<>>)

\* String.prototype.toLowerCase on the tokens of the model.
LowerTok(tok) ==
  CASE tok = "CSV" -> "csv"
    [] tok = "Csv" -> "csv"
    [] tok = "TXT" -> "txt"
    [] OTHER -> tok

ToLowerCase(s) == [i \in 1..Len(s) |-> LowerTok(s[i])]

(***************************************************************************)
(* JavaScript values.                                                      *)
(***************************************************************************)
\* undefined, or a defined string.
Undefined == [def |-> FALSE, v |-> <<>>]
Def(s) == [def |-> TRUE, v |-> s]

\* ToBoolean of undefined-or-string: undefined and "" are falsy.
Truthy(x) == x.def /\ x.v # <<>>

\* Element i of an array of strings, undefined past its end (destructuring).
At(arr, i) == IF i <= Len(arr) THEN Def(arr[i]) ELSE Undefined

\* The properties every plain object ({}) inherits from Object.prototype,
\* among the tokens of the model.
ProtoKeys == {Str("constructor"), Str("__proto__"), Str("toString")}

\* The `length` of an inherited property's value: Object is a function of
\* length 1, Object.prototype.toString of length 0, Object.prototype (the
\* value of __proto__) has none (-1 stands for undefined).
ProtoLength(k) ==
  CASE k = Str("constructor") -> 1
    [] k = Str("toString") -> 0
    [] OTHER -> -1

(***************************************************************************)
(* ProcessCsvLogs.parseFileContent                                         *)
(***************************************************************************)
\* A plain object as a log map: its own keys are the domain.
EmptyMap == [k \in {} |-> <<>>]

\* logMap[date].push(cookie), for an own key or a key just created.
Push(logMap, date, cookie) ==
  [k \in DOMAIN logMap \cup {date} |->
     IF k = date
       THEN (IF date \in DOMAIN logMap THEN Append(logMap[date], cookie)
                                       ELSE <<cookie>>)
       ELSE logMap[k]]

\* Variant of DataLines: the loop starts at line index 0.
DataLinesFromZero(lines) == lines

\* for (let i = 1; i < lines.length; i++): the lines the loop visits.
DataLines(lines) == SubSeq(lines, 2, Len(lines))

\* Variant of IsSkipped: only the cookie is tested.
IsSkippedCookieOnly(cookie, timestamp) == ~Truthy(cookie)

\* if (!cookie || !timestamp) continue;
IsSkipped(cookie, timestamp) == ~Truthy(cookie) \/ ~Truthy(timestamp)

\* Variant of DateOf: the whole timestamp is the key.
DateOfWhole(timestamp) == timestamp

\* timestamp.split('T')[0]
DateOf(timestamp) == Split(timestamp, TEE)[1]

\* logMap[date] is truthy without being an array of logMap: an inherited
\* property of Object.prototype.  `!logMap[date]` is then false and
\* logMap[date].push is not a function.
PushThrows(logMap, date) == date \notin DOMAIN logMap /\ date \in ProtoKeys

\* One iteration of the loop body on a line; acc = [thrown, map].
ParseLine(acc, line) ==
  LET fields == Split(line, COMMA)
      cookie == At(fields, 1)
      timestamp == At(fields, 2)
  IN  IF acc.thrown \/ IsSkipped(cookie, timestamp) THEN acc
      ELSE LET date == DateOf(timestamp.v)
           IN  IF PushThrows(acc.map, date)
                 THEN [thrown |-> TRUE, map |-> acc.map]
                 ELSE [thrown |-> FALSE, map |-> Push(acc.map, date, cookie.v)]

RECURSIVE ParseLines(_, _)
ParseLines(acc, lines) ==
  IF lines = <<>> THEN acc
  ELSE ParseLines(ParseLine(acc, Head(lines)), Tail(lines))

\* ProcessCsvLogs.parseFileContent: [thrown |-> TypeError?, map |-> logMap].
CsvParseFileContent(text) ==
  ParseLines([thrown |-> FALSE, map |-> EmptyMap],
             DataLines(Split(Trim(text), NL)))

\* ProcessLogs.parseFileContent: return {}.
BaseParseFileContent(text) == [thrown |-> FALSE, map |-> EmptyMap]

(***************************************************************************)
(* ProcessLogs.#analyzeLogs                                                *)
(***************************************************************************)
\* A value of freqMap: a number, or the string that `object + 1` yields.
Num(n) == [isNum |-> TRUE, n |-> n]
NotANumber == [isNum |-> FALSE, n |-> 0]

\* freqMap: own keys in creation order, and their values.
EmptyFreq == [keys |-> <<>>, val |-> EmptyMap]

InSeq(x, s) == \E i \in 1..Len(s) : s[i] = x

\* freqMap[cookie] = (freqMap[cookie] ?? 0) + 1
Count(freq, cookie) ==
  IF InSeq(cookie, freq.keys)
    THEN [keys |-> freq.keys,
          val |-> [freq.val EXCEPT ![cookie] =
                     IF @.isNum THEN Num(@.n + 1) ELSE NotANumber]]
  ELSE IF cookie = Str("__proto__")
    \* the inherited setter ignores a value that is not an object
    THEN freq
  ELSE [keys |-> Append(freq.keys, cookie),
        val |-> [k \in DOMAIN freq.val \cup {cookie} |->
                   IF k = cookie
                     THEN (IF cookie \in ProtoKeys THEN NotANumber ELSE Num(1))
                     ELSE freq.val[k]]]

RECURSIVE CountAll(_, _)
CountAll(freq, logs) ==
  IF logs = <<>> THEN freq
  ELSE CountAll(Count(freq, Head(logs)), Tail(logs))

\* Math.max(...Object.values(freqMap)): NaN when a value is not numeric,
\* -Infinity when there is none (both as NotANumber: no value === them).
RECURSIVE MaxNum(_, _)
MaxNum(freq, i) ==
  IF i > Len(freq.keys) THEN 0
  ELSE LET rest == MaxNum(freq, i + 1)
           v == freq.val[freq.keys[i]].n
       IN  IF v > rest THEN v ELSE rest

MaxFreq(freq) ==
  IF freq.keys = <<>> \/ \E k \in DOMAIN freq.val : ~freq.val[k].isNum
    THEN NotANumber
    ELSE Num(MaxNum(freq, 1))

\* Integer-like keys ("0", "7", "12"; not "07") are array indices.
Digits == {"0", "1", "2"}

DigitVal(tok) == CASE tok = "0" -> 0 [] tok = "1" -> 1 [] OTHER -> 2

IsArrayIndex(s) ==
  /\ s # <<>>
  /\ \A i \in 1..Len(s) : s[i] \in Digits
  /\ (Len(s) = 1 \/ s[1] # "0")

RECURSIVE NumVal(_)
NumVal(s) ==
  IF s = <<>> THEN 0
  ELSE 10 * NumVal(SubSeq(s, 1, Len(s) - 1)) + DigitVal(s[Len(s)])

RECURSIVE Ascending(_)
Ascending(S) ==
  IF S = {} THEN <<>>
  ELSE LET m == CHOOSE x \in S : \A y \in S : NumVal(x) <= NumVal(y)
       IN  <<m>> \o Ascending(S \ {m})

\* Object.keys(freqMap): the array indices in ascending numeric order, then
\* the other keys in creation order.
ObjectKeys(freq) ==
  Ascending({k \in DOMAIN freq.val : IsArrayIndex(k)})
    \o SelectSeq(freq.keys, LAMBDA k : ~IsArrayIndex(k))

\* Object.keys(freqMap).filter(cookie => freqMap[cookie] === maxFreq)
MostUsed(freq) ==
  LET maxFreq == MaxFreq(freq)
  IN  SelectSeq(ObjectKeys(freq),
                LAMBDA k : /\ maxFreq.isNum
                           /\ freq.val[k].isNum
                           /\ freq.val[k].n = maxFreq.n)

\* const logs = logMap[date]; the outcomes of the guard and of for...of:
\*   "none"  - !logs || logs.length === 0: the message, return null
\*   "throw" - logs is an inherited non-iterable value: TypeError
\*   "list"  - logs is an array of cookies
LogsKind(logMap, date) ==
  IF date \in DOMAIN logMap
    THEN (IF Len(logMap[date]) = 0 THEN "none" ELSE "list")
  ELSE IF date \in ProtoKeys
    THEN (IF ProtoLength(date) = 0 THEN "none" ELSE "throw")
  ELSE "none"

\* #analyzeLogs: [kind, list].
AnalyzeLogsOf(logMap, date) ==
  LET kind == LogsKind(logMap, date)
  IN  [kind |-> kind,
       list |-> IF kind = "list" THEN MostUsed(CountAll(EmptyFreq, logMap[date]))
                                 ELSE <<>>]

(***************************************************************************)
(* App: the command line                                                   *)
(***************************************************************************)
\* Utilities.chunk(args, 2): the pairs [key, value]; the value of a last odd
\* argument is undefined.
RECURSIVE Chunk(_)
Chunk(args) ==
  IF args = <<>> THEN <<>>
  ELSE IF Len(args) = 1 THEN << <<Def(args[1]), Undefined>> >>
  ELSE << <<Def(args[1]), Def(args[2])>> >> \o Chunk(SubSeq(args, 3, Len(args)))

NoArgs == [fileName |-> Undefined, timeStamp |-> Undefined]

\* App.#parseArguments: argMap[PARAMETERS[key]] = value for the known flags,
\* a later pair overwriting an earlier one.  (A key that PARAMETERS inherits
\* sets a property of argMap that nothing reads.)
RECURSIVE ParseArgumentsFrom(_, _)
ParseArgumentsFrom(argMap, chunks) ==
  IF chunks = <<>> THEN argMap
  ELSE LET key == Head(chunks)[1].v
           value == Head(chunks)[2]
           next == CASE key = Str("-f") -> [argMap EXCEPT !.fileName = value]
                     [] key = Str("-d") -> [argMap EXCEPT !.timeStamp = value]
                     [] OTHER -> argMap
       IN  ParseArgumentsFrom(next, Tail(chunks))

ParseArgumentsOf(args) == ParseArgumentsFrom(NoArgs, Chunk(args))

\* App.#getFileExtension: fileName.split('.').pop().toLowerCase()
GetFileExtension(fileName) ==
  LET parts == Split(fileName, DOT) IN ToLowerCase(parts[Len(parts)])

\* The switch of App.main.
AdapterFor(fileExtension) ==
  IF fileExtension = Str("csv") THEN "ProcessCsvLogs" ELSE "ProcessLogs"

\* Virtual dispatch of this.parseFileContent(content).
ParseFileContentOf(cls, text) ==
  IF cls = "ProcessCsvLogs" THEN CsvParseFileContent(text)
                            ELSE BaseParseFileContent(text)

\* Lines written on the streams.
ErrLine(kind, text) == [kind |-> kind, text |-> text]
CookieLine(cookie) == [kind |-> "cookie", text |-> cookie]
NoCookiesMessage == [kind |-> "message", text |-> Str("There are no cookies for this date")]

CookieLines(list) == [i \in 1..Len(list) |-> CookieLine(list[i])]

\* What the catch block of #retrieveFileContent writes before it ends: the
\* first console.error, then `error.message` where no `error` is in scope
\* (the caught value is `e`): a ReferenceError that nothing catches, which
\* the runtime reports on the error stream.
CannotReadReport(fileName) ==
  << ErrLine("cannotRead", fileName),
     ErrLine("uncaught", Str("ReferenceError: error is not defined")) >>

UsageReport(flag) ==
  << ErrLine("missing", Str(flag)), ErrLine("usage", <<>>) >>

(***************************************************************************)
(* The run.                                                                *)
(***************************************************************************)
NoResult == [kind |-> "none", list |-> <<>>]

Start ==
  /\ pc = "main"
  /\ parsedArgs = NoArgs
  /\ content = <<>>
  /\ adapter = "none"
  /\ parsedLogs = EmptyMap
  /\ analyzedLogs = NoResult
  /\ stdout = <<>>
  /\ stderr = <<>>
  /\ exitCode = 0
  /\ thrown = "none"
  /\ coreCalls = 0

\* App.main, lines 26-39: parse the arguments, exit(1) on a missing flag.
ParseArguments ==
  /\ pc = "main"
  /\ LET a == ParseArgumentsOf(argv)
     IN  /\ parsedArgs' = a
         /\ IF ~Truthy(a.fileName)
              THEN /\ stderr' = stderr \o UsageReport("-f")
                   /\ exitCode' = 1
                   /\ pc' = "exited"
            ELSE IF ~Truthy(a.timeStamp)
              THEN /\ stderr' = stderr \o UsageReport("-d")
                   /\ exitCode' = 1
                   /\ pc' = "exited"
            ELSE /\ pc' = "read"
                 /\ UNCHANGED <<stderr, exitCode>>
  /\ UNCHANGED <<env, content, adapter, parsedLogs, analyzedLogs, stdout,
                 thrown, coreCalls>>

\* App.#retrieveFileContent.
RetrieveFileContent ==
  /\ pc = "read"
  /\ IF fsReadable
       THEN /\ content' = fsContent
            /\ pc' = "dispatch"
            /\ UNCHANGED <<stderr, exitCode, thrown>>
       ELSE /\ stderr' = stderr \o CannotReadReport(parsedArgs.fileName.v)
            /\ thrown' = "ReferenceError"
            /\ exitCode' = 1
            /\ pc' = "exited"
            /\ UNCHANGED content
  /\ UNCHANGED <<env, parsedArgs, adapter, parsedLogs, analyzedLogs, stdout,
                 coreCalls>>

\* App.main, lines 42-50: choose the class and call findMostUsedCookie.
Dispatch ==
  /\ pc = "dispatch"
  /\ adapter' = AdapterFor(GetFileExtension(parsedArgs.fileName.v))
  /\ coreCalls' = coreCalls + 1
  /\ pc' = "parse"
  /\ UNCHANGED <<env, parsedArgs, content, parsedLogs, analyzedLogs, stdout,
                 stderr, exitCode, thrown>>

\* findMostUsedCookie, line 114.
ParseFileContent ==
  /\ pc = "parse"
  /\ LET r == ParseFileContentOf(adapter, content)
     IN  IF r.thrown
           THEN /\ thrown' = "TypeError"
                /\ stderr' = Append(stderr, ErrLine("uncaught", Str("TypeError")))
                /\ exitCode' = 1
                /\ pc' = "exited"
                /\ UNCHANGED parsedLogs
           ELSE /\ parsedLogs' = r.map
                /\ pc' = "analyze"
                /\ UNCHANGED <<thrown, stderr, exitCode>>
  /\ UNCHANGED <<env, parsedArgs, content, adapter, analyzedLogs, stdout,
                 coreCalls>>

\* findMostUsedCookie, line 115: #analyzeLogs.
AnalyzeLogs ==
  /\ pc = "analyze"
  /\ LET r == AnalyzeLogsOf(parsedLogs, parsedArgs.timeStamp.v)
     IN  /\ analyzedLogs' = r
         /\ IF r.kind = "throw"
              THEN /\ thrown' = "TypeError"
                   /\ stderr' = Append(stderr, ErrLine("uncaught", Str("TypeError")))
                   /\ exitCode' = 1
                   /\ pc' = "exited"
                   /\ UNCHANGED stdout
              ELSE /\ stdout' = IF r.kind = "none"
                                  THEN Append(stdout, NoCookiesMessage)
                                  ELSE stdout
                   /\ pc' = "print"
                   /\ UNCHANGED <<thrown, stderr, exitCode>>
  /\ UNCHANGED <<env, parsedArgs, content, adapter, parsedLogs, coreCalls>>

\* findMostUsedCookie, lines 117-119, and the end of the process.
PrintCookies ==
  /\ pc = "print"
  /\ stdout' = IF analyzedLogs.kind = "list"
                 THEN stdout \o CookieLines(analyzedLogs.list)
                 ELSE stdout
  /\ pc' = "exited"
  /\ UNCHANGED <<env, parsedArgs, content, adapter, parsedLogs, analyzedLogs,
                 stderr, exitCode, thrown, coreCalls>>

Next ==
  \/ ParseArguments
  \/ RetrieveFileContent
  \/ Dispatch
  \/ ParseFileContent
  \/ AnalyzeLogs
  \/ PrintCookies

(***************************************************************************)
(* Inputs: command lines, files and log contents.                          *)
(***************************************************************************)
RECURSIVE Join(_)
Join(lines) ==
  IF lines = <<>> THEN <<>>
  ELSE IF Len(lines) = 1 THEN lines[1]
  ELSE lines[1] \o <<NL>> \o Join(Tail(lines))

SeqsUpTo(S, n) == UNION {[1..k -> S] : k \in 0..n}

Stamp(date, time) == <<date, TEE, time>>
Line(cookie, timestamp) == cookie \o <<COMMA>> \o timestamp

Header == <<"cookie", COMMA, "timestamp">>

\* The command line `-f <fileName> -d <date>`.
CommandLine(fileName, date) == <<Str("-f"), fileName, Str("-d"), date>>

LogCsv == <<"log", DOT, "csv">>

\* Well-formed records, for the ranker.
RankCookies ==
  {Str("a"), Str("b"), Str("1"), Str("2"), <<"1", "0">>,
   Str("constructor"), Str("__proto__")}

RankLines ==
  {Line(c, Stamp("D9", "1")) : c \in RankCookies}
    \cup {Line(Str("a"), Stamp("D8", "2")), Line(Str("b"), Stamp("D8", "2"))}

InitRank ==
  /\ Start
  /\ fsReadable = TRUE
  /\ \E ls \in SeqsUpTo(RankLines, MaxLines), d \in {Str("D9"), Str("D8")} :
       /\ fsContent = Join(<<Header>> \o ls)
       /\ argv = CommandLine(LogCsv, d)

\* Records and malformed lines, for the parser.
ParseInputLines ==
  { Line(Str("a"), Stamp("D9", "1")),
    Line(Str("b"), Stamp("D9", "2")),
    Line(Str("a"), Stamp("D8", "1")),
    Line(<<>>, Stamp("D9", "1")),
    Line(Str("a"), <<>>),
    Str("b"),
    Line(Str("a"), Str("constructor")),
    Line(Str("a"), <<SPACE>>) }

\* Line 0: the documented header, or text that has the form of a record.
Headers == {Header, Line(Str("b"), Stamp("D9", "1"))}

\* White space around the whole content.
Paddings == { <<<<>>, <<>>>>, <<<<NL>>, <<NL, SPACE, NL>>>> }

InitParse ==
  /\ Start
  /\ fsReadable = TRUE
  /\ \E ls \in SeqsUpTo(ParseInputLines, MaxLines), h \in Headers,
        pad \in Paddings, d \in {Str("D9"), Str("D7")} :
       /\ fsContent = pad[1] \o Join(<<h>> \o ls) \o pad[2]
       /\ argv = CommandLine(LogCsv, d)

\* Command lines, files and query dates.
FileNames ==
  {LogCsv, <<"log", DOT, "CSV">>, <<"log", DOT, "txt">>,
   <<"log", DOT, "csv", DOT, "TXT">>, Str("log"), Str("csv")}

QueryDates ==
  {Str("D9"), Str("D7"), Str("yesterday"),
   Str("constructor"), Str("__proto__"), Str("toString")}

CliContents ==
  { <<>>,
    Join(<<Header, Line(Str("a"), Stamp("D9", "1"))>>),
    Join(<<Header, Line(Str("a"), Stamp("D9", "1")),
           Line(Str("b"), Stamp("D9", "2")),
           Line(Str("b"), Stamp("D8", "1"))>>) }

CommandLines ==
  {CommandLine(f, d) : f \in FileNames, d \in QueryDates}
    \cup {<<Str("-d"), d, Str("-f"), f>> : f \in FileNames, d \in QueryDates}
    \cup {<<Str("-f"), f>> : f \in FileNames}
    \cup {<<Str("-d"), d>> : d \in QueryDates}
    \cup {<<Str("-f"), f, Str("-d")>> : f \in FileNames}
    \cup {<<Str("-f"), <<>>, Str("-d"), d>> : d \in QueryDates}
    \cup {<<>>, <<Str("-f")>>, <<Str("-x"), LogCsv, Str("-d"), Str("D9")>>}

Init ==
  /\ Start
  /\ fsReadable \in BOOLEAN
  /\ fsContent \in CliContents
  /\ argv \in CommandLines

Spec == Init /\ [][Next]_vars
SpecRank == InitRank /\ [][Next]_vars
SpecParse == InitParse /\ [][Next]_vars

(***************************************************************************)
(* What the specification says, stated without the program's operators.    *)
(***************************************************************************)
Range(s) == {s[i] : i \in 1..Len(s)}

NoDuplicates(s) == \A i, j \in 1..Len(s) : s[i] = s[j] => i = j

\* Number of occurrences of cookie c in a bucket.
Occ(c, bucket) == Cardinality({i \in 1..Len(bucket) : bucket[i] = c})

IsMaximal(c, bucket) == \A o \in Range(bucket) : Occ(o, bucket) <= Occ(c, bucket)

FirstIndex(c, s) == CHOOSE i \in 1..Len(s) : s[i] = c /\ \A j \in 1..(i - 1) : s[j] # c

\* The cookies of maximal count, in the order of their first occurrence.
ExpectedWinners(bucket) ==
  LET idx == SelectSeq([i \in 1..Len(bucket) |-> i],
                       LAMBDA i : /\ FirstIndex(bucket[i], bucket) = i
                                  /\ IsMaximal(bucket[i], bucket))
  IN  [k \in 1..Len(idx) |-> bucket[idx[k]]]

\* The part of a timestamp before the first 'T'.
BeforeT(ts) ==
  IF \E k \in 1..Len(ts) : ts[k] = TEE
    THEN SubSeq(ts, 1, (CHOOSE k \in 1..Len(ts) :
                          ts[k] = TEE /\ \A j \in 1..(k - 1) : ts[j] # TEE) - 1)
    ELSE ts

\* A line whose cookieId or timestamp field is missing or empty.
IsMalformedLine(line) ==
  LET f == Split(line, COMMA)
  IN  Len(f) < 2 \/ f[1] = <<>> \/ f[2] = <<>>

\* The lines of the trimmed content; line 1 here is line index 0 there.
LinesOf(text) == Split(Trim(text), NL)

\* The records of a content: the well-formed lines after line 0, in order.
RecordsOf(text) ==
  LET ls == LinesOf(text)
      idx == SelectSeq([i \in 1..Len(ls) |-> i],
                       LAMBDA i : i >= 2 /\ ~IsMalformedLine(ls[i]))
  IN  [k \in 1..Len(idx) |->
         [cookie |-> Split(ls[idx[k]], COMMA)[1],
          date |-> BeforeT(Split(ls[idx[k]], COMMA)[2])]]

\* The cookies recorded on a date, in input order.
CookiesOn(date, records) ==
  LET on == SelectSeq(records, LAMBDA r : r.date = date)
  IN  [i \in 1..Len(on) |-> on[i].cookie]

RemoveAt(s, i) == SubSeq(s, 1, i - 1) \o SubSeq(s, i + 1, Len(s))

QueryDate == parsedArgs.timeStamp.v

HasBucket == QueryDate \in DOMAIN parsedLogs /\ Len(parsedLogs[QueryDate]) > 0

CookiesPrinted == SelectSeq(stdout, LAMBDA l : l.kind = "cookie")

\* No argument is the flag.
FlagMissing(flag) == \A i \in 1..Len(argv) : argv[i] # Str(flag)

\* Texts put in the place of line 0.
HeaderTexts ==
  Headers \cup {Str("x"), Line(Str("a"), Stamp("D8", "1")),
                Line(Str("a"), Stamp("D9", "2"))}

\* The run ended with the "no data" outcome.
NoDataOutcome ==
  /\ analyzedLogs.kind = "none"
  /\ stdout = <<NoCookiesMessage>>
  /\ thrown = "none"
  /\ exitCode = 0

(***************************************************************************)
(* Claims.                                                                 *)
(***************************************************************************)

\* C1: whenever the bucket of the query date is non-empty, the list returned
\* by #analyzeLogs holds exactly the distinct cookies of maximal count in
\* that bucket: none missing, none of lower count, none twice.
C1_ExactlyTheMaximal ==
  (pc = "print" /\ HasBucket) =>
    LET bucket == parsedLogs[QueryDate]
    IN  /\ analyzedLogs.kind = "list"
        /\ Range(analyzedLogs.list) = {c \in Range(bucket) : IsMaximal(c, bucket)}
        /\ NoDuplicates(analyzedLogs.list)

\* C2: the cookies written on standard output are the cookies tied for the
\* maximum in the order of their first occurrence in the log for that date,
\* cookies made only of digits included.  (Stated for buckets that hold no
\* name inherited from Object.prototype, so that it is the order alone that
\* decides.)
C2_FirstOccurrenceOrder ==
  (pc = "exited" /\ thrown = "none" /\ HasBucket
     /\ Range(parsedLogs[QueryDate]) \cap ProtoKeys = {}) =>
    stdout = CookieLines(ExpectedWinners(parsedLogs[QueryDate]))

\* C3: for a query date that is the date of no surviving record, the run
\* ends with the "no data" outcome: null returned, the message printed, no
\* cookie line, no failure.
C3_AbsentDateNoData ==
  (pc = "exited" /\ coreCalls = 1
     /\ \A i \in 1..Len(RecordsOf(content)) : RecordsOf(content)[i].date # QueryDate) =>
    NoDataOutcome

\* C4: whenever #analyzeLogs does not signal "no data" for a non-empty
\* bucket, the winners are not empty and all have the same count.
C4_WinnersNonEmptyEqual ==
  (pc = "print" /\ HasBucket) =>
    LET bucket == parsedLogs[QueryDate]
        w == analyzedLogs.list
    IN  /\ analyzedLogs.kind = "list"
        /\ w # <<>>
        /\ \A i, j \in 1..Len(w) : Occ(w[i], bucket) = Occ(w[j], bucket)

\* C5 (as stated): for every malformed data line, the map that
\* parseFileContent builds equals the map it builds from the content with
\* that line removed.
C5_EqualsContentWithoutLine ==
  (pc = "analyze" /\ adapter = "ProcessCsvLogs") =>
    \A i \in 2..Len(LinesOf(content)) :
      IsMalformedLine(LinesOf(content)[i]) =>
        CsvParseFileContent(Join(RemoveAt(LinesOf(content), i)))
          = [thrown |-> FALSE, map |-> parsedLogs]

\* C5 (amended): for every malformed data line, the map that
\* parseFileContent builds equals the map its loop builds from the other
\* lines of the trimmed content: the line adds nothing, and the lines before
\* and after it are processed.  This is the map of the content with that
\* line removed whenever the removal leaves no white space at the end of the
\* content for trim to strip.
C5_EqualsOtherLines ==
  (pc = "analyze" /\ adapter = "ProcessCsvLogs") =>
    \A i \in 2..Len(LinesOf(content)) :
      IsMalformedLine(LinesOf(content)[i]) =>
        LET others == RemoveAt(LinesOf(content), i)
        IN  /\ ParseLines([thrown |-> FALSE, map |-> EmptyMap], Tail(others))
                 = [thrown |-> FALSE, map |-> parsedLogs]
            /\ (Trim(Join(others)) = Join(others)) =>
                 CsvParseFileContent(Join(others))
                   = [thrown |-> FALSE, map |-> parsedLogs]

\* A malformed line between two records, all three processed.
C5_Witness ==
  /\ pc = "analyze"
  /\ adapter = "ProcessCsvLogs"
  /\ \E i \in 3..(Len(LinesOf(content)) - 1) :
       /\ IsMalformedLine(LinesOf(content)[i])
       /\ ~IsMalformedLine(LinesOf(content)[i - 1])
       /\ ~IsMalformedLine(LinesOf(content)[i + 1])
       /\ Len(RecordsOf(content)) = 2
       /\ \E d \in DOMAIN parsedLogs : Len(parsedLogs[d]) = 2

\* C6: once the content is read, the run ends with the winners or with the
\* "no data" message, never with an uncaught exception.
C6_NeverThrows ==
  (pc = "exited" /\ coreCalls = 1) =>
    /\ thrown = "none"
    /\ exitCode = 0
    /\ (stdout = <<NoCookiesMessage>> \/ stdout = CookiesPrinted)

\* C7: with -f or -d missing, or the file unreadable, the error is reported
\* on the error stream (for an unreadable file: the path and the underlying
\* error message), the exit status is not zero, the core is never invoked
\* and nothing is written on standard output.
C7_ErrorsAbortBeforeCore ==
  (pc = "exited" /\ (FlagMissing("-f") \/ FlagMissing("-d") \/ ~fsReadable)) =>
    /\ exitCode # 0
    /\ coreCalls = 0
    /\ stdout = <<>>
    /\ stderr # <<>>
    /\ (~FlagMissing("-f") /\ ~FlagMissing("-d") /\ Truthy(parsedArgs.fileName)
          /\ Truthy(parsedArgs.timeStamp)) =>
         /\ \E i \in 1..Len(stderr) :
              stderr[i] = ErrLine("cannotRead", parsedArgs.fileName.v)
         /\ \E i \in 1..Len(stderr) : stderr[i].kind = "underlying"

\* C8: line 0 of the trimmed content is never counted: the map is the same
\* whatever the text of line 0, a text of the form of a record included.
C8_HeaderNeverCounted ==
  (pc = "analyze" /\ adapter = "ProcessCsvLogs") =>
    \A h \in HeaderTexts :
      CsvParseFileContent(Join(<<h>> \o Tail(LinesOf(content))))
        = [thrown |-> FALSE, map |-> parsedLogs]

\* Line 0 has the form of a record of cookie b, records follow, and b is in
\* no bucket.
C8_Witness ==
  /\ pc = "analyze"
  /\ adapter = "ProcessCsvLogs"
  /\ LinesOf(content)[1] = Line(Str("b"), Stamp("D9", "1"))
  /\ Str("D9") \in DOMAIN parsedLogs
  /\ \A d \in DOMAIN parsedLogs : Str("b") \notin Range(parsedLogs[d])

\* C9: the bucket of a record is the part of its timestamp before 'T': each
\* bucket holds the cookies of the records of that calendar date, in input
\* order with duplicates retained, and nothing else.
C9_BucketIsDatePart ==
  (pc = "analyze" /\ adapter = "ProcessCsvLogs") =>
    LET records == RecordsOf(content)
    IN  /\ DOMAIN parsedLogs = {records[i].date : i \in 1..Len(records)}
        /\ \A d \in DOMAIN parsedLogs : parsedLogs[d] = CookiesOn(d, records)

\* Two records of the same date and different times share a bucket, a record
\* of another date is in another one.
C9_Witness ==
  /\ pc = "analyze"
  /\ adapter = "ProcessCsvLogs"
  /\ Line(Str("a"), Stamp("D9", "1")) \in Range(Tail(LinesOf(content)))
  /\ Line(Str("b"), Stamp("D9", "2")) \in Range(Tail(LinesOf(content)))
  /\ Str("D9") \in DOMAIN parsedLogs
  /\ Range(parsedLogs[Str("D9")]) = {Str("a"), Str("b")}
  /\ Str("D8") \in DOMAIN parsedLogs

\* C10: `csv` in any letter case selects the CSV parser, every other
\* extension or none the no-op adapter, with which the run ends with the
\* "no data" message, no cookie line and no error, whatever the content and
\* the query date.
C10_NoOpAdapterNoData ==
  /\ (pc \in {"parse", "analyze", "print"}) =>
       (adapter = "ProcessCsvLogs"
          <=> LET parts == Split(parsedArgs.fileName.v, DOT)
              IN  parts[Len(parts)] \in {Str("csv"), Str("CSV"), Str("Csv")})
  /\ (pc = "exited" /\ adapter = "ProcessLogs") =>
       /\ NoDataOutcome
       /\ stderr = <<>>

====
